---- MODULE Spec2Model ----
(***************************************************************************)
(* Model of the text-processing core of prepare-and-query-kb:              *)
(*   chunk_text       (src/file_processor.py)                              *)
(*   build_context    (src/pinecone_client.py), get_answer's use of it     *)
(*   upsert_data      (src/pinecone_client.py)                             *)
(*   format_records_for_pinecone (src/file_processor.py)                   *)
(*   upload_file      (src/app.py)                                         *)
(* Strings are sequences of one-character strings; indices in the Python   *)
(* helpers are 0-based as in the source.                                   *)
(***************************************************************************)
EXTENDS Integers, Sequences, FiniteSets, TLC

VARIABLES
    \* chunk_text
    text, chunk_size, overlap, stext, start, wend, chunks, nchunks, covered, cpc,
    \* build_context / get_answer
    hits, max_tokens, hidx, context, current_tokens, remaining_tokens,
    partial_text, bresult, bpc, ga_context,
    \* upsert_data
    records0, records, ridx, valid_records, filtered_count, uerror,
    upsert_calls, uresult, upc,
    \* format_records_for_pinecone
    f_chunks, f_assistant, f_base_id, f_records, fpc,
    \* upload_file
    u_assistant, u_filename, u_size, u_read_ok, u_extracted, u_response, ufpc

chunkVars == <<text, chunk_size, overlap, stext, start, wend, chunks, nchunks,
               covered, cpc>>
ctxVars == <<hits, max_tokens, hidx, context, current_tokens, remaining_tokens,
             partial_text, bresult, bpc, ga_context>>
upsVars == <<records0, records, ridx, valid_records, filtered_count, uerror,
             upsert_calls, uresult, upc>>
fmtVars == <<f_chunks, f_assistant, f_base_id, f_records, fpc>>
uplVars == <<u_assistant, u_filename, u_size, u_read_ok, u_extracted,
             u_response, ufpc>>
vars == <<chunkVars, ctxVars, upsVars, fmtVars, uplVars>>

-----------------------------------------------------------------------------
(* Bounds of the model *)

MaxLen == 5
MaxChunkSize == 4

-----------------------------------------------------------------------------
(* Python string helpers *)

Min(S) == CHOOSE x \in S : \A y \in S : x <= y
Max(S) == CHOOSE x \in S : \A y \in S : x >= y

Rep(c, n) == [i \in 1..n |-> c]

SeqsUpTo(A, n) == UNION {[1..k -> A] : k \in 0..n}

\* str.isspace for the characters of the model alphabet
IsSpace(c) == c \in {" ", "\n", "\t", "\r"}

\* str.strip(): drop leading and trailing whitespace
Strip(s) ==
    LET keep == {i \in 1..Len(s) : ~IsSpace(s[i])}
    IN  IF keep = {} THEN <<>> ELSE SubSeq(s, Min(keep), Max(keep))

\* Python slice index normalisation for s[lo:hi]
SliceIdx(i, n) == IF i < 0 THEN (IF i + n < 0 THEN 0 ELSE i + n)
                  ELSE (IF i > n THEN n ELSE i)

\* s[lo:hi] with Python semantics (negative indices count from the end)
PySlice(s, lo, hi) ==
    LET a == SliceIdx(lo, Len(s))
        b == SliceIdx(hi, Len(s))
    IN  IF a >= b THEN <<>> ELSE SubSeq(s, a + 1, b)

\* s.rfind(c) for a single character c: highest 0-based index, or -1
RFind(s, c) ==
    LET at == {i \in 1..Len(s) : s[i] = c}
    IN  IF at = {} THEN -1 ELSE Max(at) - 1

\* s.rfind('. ')
RFindDotSpace(s) ==
    LET at == {i \in 1..(Len(s) - 1) : s[i] = "." /\ s[i + 1] = " "}
    IN  IF at = {} THEN -1 ELSE Max(at) - 1

-----------------------------------------------------------------------------
(* chunk_text *)

Alphabet == {"a", " ", "\n", "."}
Texts == SeqsUpTo(Alphabet, MaxLen)

\* chunks holds the first MaxChunks appended chunks and nchunks the parity of
\* len(chunks), so that a loop that never ends is a cycle of the model;
\* wend is the local `end` after the last iteration and covered the offsets
\* of the stripped text that the windows emitted so far hold
MaxChunks == MaxLen + 1

\* the loop of a never-ending call is followed down to this start offset
StartFloor == 0 - (MaxLen + 2 * MaxChunkSize + 2)

\* chunk_size and overlap as passed by a caller, invalid values included
Params == (0 - 1)..MaxChunkSize

BreakLookback == 200

\* variant of IsBlank that tests only `not text`
IsBlank_NoStripCheck(t) == Len(t) = 0

\* line 163: if not text or len(text.strip()) == 0
IsBlank(t) == Len(t) = 0 \/ Len(Strip(t)) = 0

\* variant of FitsOneChunk with < for <=
FitsOneChunk_Strict(t, cs) == Len(t) < cs

\* line 170: if len(text) <= chunk_size
FitsOneChunk(t, cs) == Len(t) <= cs

\* variant of WindowEnd that is one character too long
WindowEnd_OneMore(s, cs) == s + cs + 1

\* line 178: end = start + chunk_size
WindowEnd(s, cs) == s + cs

\* variant of BreakPoint without the look-back limit: the first kind of
\* break character found wins
BreakPoint_NoLookback(chunk, cs) ==
    IF RFind(chunk, "\n") # -1 THEN RFind(chunk, "\n")
    ELSE IF RFindDotSpace(chunk) # -1 THEN RFindDotSpace(chunk)
    ELSE RFind(chunk, " ")

\* lines 186-190: the break point searched in the window
BreakPoint(chunk, cs) ==
    LET bp1 == RFind(chunk, "\n")
        bp2 == IF bp1 = -1 \/ bp1 < cs - BreakLookback
               THEN RFindDotSpace(chunk) ELSE bp1
        bp3 == IF bp2 = -1 \/ bp2 < cs - BreakLookback
               THEN RFind(chunk, " ") ELSE bp2
    IN  bp3

\* variant of AcceptBreak with >= for >
AcceptBreak_AtHalf(bp, cs) == bp >= cs \div 2

\* line 192: if break_point > chunk_size // 2
AcceptBreak(bp, cs) == bp > cs \div 2

\* variant of NextStart that adds the overlap
NextStart_Forward(e, ov) == e + ov

\* variant of NextStart that steps back one character too many
NextStart_OneLess(e, ov) == e - ov - 1

\* line 199: start = end - overlap
NextStart(e, ov) == e - ov

\* the 0-based offsets of t that the slice t[s:s+n] of n characters holds
SliceOffsets(t, s, n) == {SliceIdx(s, Len(t)) + i : i \in 0..(n - 1)}

\* lines 178-194: the window of one iteration, as [chunk, end]
Window(t, s, cs, ov) ==
    LET end0 == WindowEnd(s, cs)
        chunk0 == PySlice(t, s, end0)
        bp == BreakPoint(chunk0, cs)
    IN  IF end0 < Len(t) /\ ov > 0 /\ AcceptBreak(bp, cs)
        THEN [chunk |-> PySlice(chunk0, 0, bp), end |-> s + bp]
        ELSE [chunk |-> chunk0, end |-> end0]

\* line 196: chunks.append(...)
AppendChunk(cs, c) == IF Len(cs) < MaxChunks THEN Append(cs, c) ELSE cs

ChunkIdle ==
    /\ text = <<>> /\ chunk_size = 0 /\ overlap = 0
    /\ stext = <<>> /\ start = 0 /\ wend = 0 /\ chunks = <<>> /\ nchunks = 0
    /\ covered = {} /\ cpc = "idle"

\* calls on every short text with every small configuration
SmallCases == {<<t, cs, ov>> : t \in Texts, cs \in Params, ov \in Params}

\* calls whose overlap exceeds the accepted break point
WideTexts == {Rep("a", 3) \o <<c>> \o Rep("a", k) : c \in {" ", "\n"}, k \in 2..3}
WideCases == {<<t, MaxChunkSize + 1, ov>> :
                 t \in WideTexts, ov \in (MaxChunkSize - 1)..MaxChunkSize}

\* calls with a window longer than the look-back of the break search: break
\* characters at the head (p) and past the middle (q) of the first window
LongTexts == {p \o Rep("a", 100) \o q \o Rep("a", 120) :
                 p \in [1..2 -> Alphabet], q \in [1..2 -> Alphabet]}
LongCases == {<<t, BreakLookback + 3, ov>> : t \in LongTexts, ov \in {0, 1, 20}}

ChunkInit ==
    /\ \E c \in SmallCases \cup WideCases \cup LongCases :
          text = c[1] /\ chunk_size = c[2] /\ overlap = c[3]
    /\ stext = <<>> /\ start = 0 /\ wend = 0 /\ chunks = <<>> /\ nchunks = 0
    /\ covered = {} /\ cpc = "call"

\* lines 163-164: empty or whitespace-only text
ChunkEmpty ==
    /\ cpc = "call"
    /\ IsBlank(text)
    /\ chunks' = <<>>
    /\ nchunks' = 0
    /\ cpc' = "returned"
    /\ UNCHANGED <<text, chunk_size, overlap, stext, start, wend, covered>>
    /\ UNCHANGED <<ctxVars, upsVars, fmtVars, uplVars>>

\* lines 167-171: the stripped text fits one chunk
ChunkSingle ==
    /\ cpc = "call"
    /\ ~IsBlank(text)
    /\ FitsOneChunk(Strip(text), chunk_size)
    /\ stext' = Strip(text)
    /\ chunks' = <<Strip(text)>>
    /\ nchunks' = 1
    /\ cpc' = "returned"
    /\ UNCHANGED <<text, chunk_size, overlap, start, wend, covered>>
    /\ UNCHANGED <<ctxVars, upsVars, fmtVars, uplVars>>

\* lines 167-174: enter the loop
ChunkEnter ==
    /\ cpc = "call"
    /\ ~IsBlank(text)
    /\ ~FitsOneChunk(Strip(text), chunk_size)
    /\ stext' = Strip(text)
    /\ chunks' = <<>>
    /\ nchunks' = 0
    /\ start' = 0
    /\ cpc' = "loop"
    /\ UNCHANGED <<text, chunk_size, overlap, wend, covered>>
    /\ UNCHANGED <<ctxVars, upsVars, fmtVars, uplVars>>

\* lines 176-201: one iteration of the while loop; the loop is left by the
\* break of line 200 or by the while condition, which test the same thing
ChunkIter ==
    /\ cpc = "loop"
    /\ start < Len(stext)
    /\ start >= StartFloor
    /\ LET w == Window(stext, start, chunk_size, overlap)
       IN  /\ chunks' = AppendChunk(chunks, Strip(w.chunk))
           /\ nchunks' = (nchunks + 1) % 2
           /\ wend' = w.end
           /\ covered' = covered \cup SliceOffsets(stext, start, Len(w.chunk))
           /\ start' = NextStart(w.end, overlap)
           /\ cpc' = IF NextStart(w.end, overlap) >= Len(stext)
                     THEN "returned" ELSE "loop"
    /\ UNCHANGED <<text, chunk_size, overlap, stext>>
    /\ UNCHANGED <<ctxVars, upsVars, fmtVars, uplVars>>

ChunkNext == ChunkEmpty \/ ChunkSingle \/ ChunkEnter \/ ChunkIter

-----------------------------------------------------------------------------
(* The tokenizer of build_context: tiktoken's cl100k_base, modelled by its *)
(* pre-tokenisation pattern on texts of letters, digits and spaces; every  *)
(* piece the pattern cuts is one token, decode concatenates the pieces.    *)

MaxHitLen == 3
MaxHits == 2
MaxTokens == 3

IsLetter(c) == c = "a"
IsDigit(c) == c = "1"

\* number of consecutive characters of class cls in s from position i on
RECURSIVE RunLen(_, _, _)
RunLen(s, i, cls) ==
    IF i > Len(s) \/ ~(s[i] \in cls) THEN 0 ELSE 1 + RunLen(s, i + 1, cls)

Letters == {"a"}
Digits == {"1"}
Spaces == {" "}

\* length of the piece the pattern matches at position i of s:
\*   [^\r\n\p{L}\p{N}]?\p{L}+  |  \p{N}{1,3}  |  \s+(?!\S)  |  \s+
PieceLen(s, i) ==
    IF IsLetter(s[i]) THEN RunLen(s, i, Letters)
    ELSE IF IsDigit(s[i])
    THEN (IF RunLen(s, i, Digits) > 3 THEN 3 ELSE RunLen(s, i, Digits))
    ELSE IF i < Len(s) /\ IsLetter(s[i + 1]) THEN 1 + RunLen(s, i + 1, Letters)
    ELSE LET k == RunLen(s, i, Spaces)
         IN  IF i + k - 1 = Len(s) THEN k
             ELSE IF k >= 2 THEN k - 1
             ELSE 1

RECURSIVE EncodeFrom(_, _)
EncodeFrom(s, i) ==
    IF i > Len(s) THEN <<>>
    ELSE LET n == PieceLen(s, i)
         IN  <<SubSeq(s, i, i + n - 1)>> \o EncodeFrom(s, i + n)

\* encoding.encode(text)
Encode(s) == EncodeFrom(s, 1)

\* encoding.decode(tokens)
RECURSIVE Decode(_)
Decode(toks) == IF toks = <<>> THEN <<>> ELSE Head(toks) \o Decode(Tail(toks))

\* tokens[:n]
TakeTokens(toks, n) == PySlice(toks, 0, n)

-----------------------------------------------------------------------------
(* build_context and its caller get_answer *)

HitAlphabet == {"a", "1", " "}
HitTexts == SeqsUpTo(HitAlphabet, MaxHitLen)
HitLists == SeqsUpTo(HitTexts, MaxHits)
Budgets == (0 - 1)..MaxTokens

None == [kind |-> "None"]
Str(v) == [kind |-> "str", val |-> v]

\* variant of NoHits that never sees an empty hit list
NoHits_Never(hs) == FALSE

\* line 106: if len(results['result']['hits']) == 0
NoHits(hs) == Len(hs) = 0

\* variant of TokensToAdd that counts the hit without its separator
TokensToAdd_NoSeparator(hit) == Len(Encode(hit))

\* line 116: tokens_to_add = len(encoding.encode(text_to_add))
TokensToAdd(hit) == Len(Encode(<<" ">> \o hit))

\* line 119: if current_tokens + tokens_to_add > max_tokens
Overflows(cur, hit, mx) == cur + TokensToAdd(hit) > mx

\* variant of PartialText cut from the tokens of " " + text
PartialText_WithSpace(hit, remaining) ==
    Decode(TakeTokens(Encode(<<" ">> \o hit), remaining))

\* lines 124-128: the partial text that fits the remaining budget
PartialText(hit, remaining) == Decode(TakeTokens(Encode(hit), remaining))

CtxIdle ==
    /\ hits = <<>> /\ max_tokens = 0 /\ hidx = 0 /\ context = <<>>
    /\ current_tokens = 0 /\ remaining_tokens = 0 /\ partial_text = <<>>
    /\ bresult = [kind |-> "unset"] /\ bpc = "idle" /\ ga_context = <<>>

\* lines 94-104: the hits are what the external search returned
CtxInit ==
    /\ hits \in HitLists
    /\ max_tokens \in Budgets
    /\ hidx = 0 /\ context = <<>>
    /\ current_tokens = 0 /\ remaining_tokens = 0 /\ partial_text = <<>>
    /\ bresult = [kind |-> "unset"] /\ bpc = "call" /\ ga_context = <<>>

\* lines 105-107: no hit, return None
BcNoHits ==
    /\ bpc = "call"
    /\ NoHits(hits)
    /\ context' = <<>>
    /\ bresult' = None
    /\ bpc' = "returned"
    /\ UNCHANGED <<hits, max_tokens, hidx, current_tokens, remaining_tokens,
                   partial_text, ga_context>>
    /\ UNCHANGED <<chunkVars, upsVars, fmtVars, uplVars>>

\* lines 105-113: start the loop over the hits
BcEnter ==
    /\ bpc = "call"
    /\ ~NoHits(hits)
    /\ context' = <<>>
    /\ current_tokens' = 0
    /\ hidx' = 1
    /\ bpc' = "loop"
    /\ UNCHANGED <<hits, max_tokens, remaining_tokens, partial_text, bresult,
                   ga_context>>
    /\ UNCHANGED <<chunkVars, upsVars, fmtVars, uplVars>>

\* lines 114-119, 132-133: the hit fits and is appended whole
BcAdd ==
    /\ bpc = "loop"
    /\ hidx <= Len(hits)
    /\ ~Overflows(current_tokens, hits[hidx], max_tokens)
    /\ context' = context \o <<" ">> \o hits[hidx]
    /\ current_tokens' = current_tokens + TokensToAdd(hits[hidx])
    /\ hidx' = hidx + 1
    /\ UNCHANGED <<hits, max_tokens, remaining_tokens, partial_text, bresult,
                   bpc, ga_context>>
    /\ UNCHANGED <<chunkVars, upsVars, fmtVars, uplVars>>

\* lines 119-130, 135: the hit overflows; a partial text is appended when
\* budget remains, the loop is left and the context returned
BcOverflow ==
    /\ bpc = "loop"
    /\ hidx <= Len(hits)
    /\ Overflows(current_tokens, hits[hidx], max_tokens)
    /\ remaining_tokens' = max_tokens - current_tokens
    /\ LET remaining == max_tokens - current_tokens
           fits == remaining > 0 /\ Len(Encode(hits[hidx])) > 0
           partial == PartialText(hits[hidx], remaining)
           ctx == IF fits THEN context \o <<" ">> \o partial ELSE context
       IN  /\ partial_text' = IF fits THEN partial ELSE partial_text
           /\ context' = ctx
           /\ bresult' = Str(ctx)
    /\ bpc' = "returned"
    /\ UNCHANGED <<hits, max_tokens, hidx, current_tokens, ga_context>>
    /\ UNCHANGED <<chunkVars, upsVars, fmtVars, uplVars>>

\* lines 113, 135: every hit was appended, return the context
BcReturn ==
    /\ bpc = "loop"
    /\ hidx > Len(hits)
    /\ bresult' = Str(context)
    /\ bpc' = "returned"
    /\ UNCHANGED <<hits, max_tokens, hidx, context, current_tokens,
                   remaining_tokens, partial_text, ga_context>>
    /\ UNCHANGED <<chunkVars, upsVars, fmtVars, uplVars>>

\* semantic_search.py lines 55-73: get_answer replaces None by "" and puts
\* the context in the prompt
GaUseContext ==
    /\ bpc = "returned"
    /\ ga_context' = IF bresult = None THEN <<>> ELSE bresult.val
    /\ bpc' = "prompted"
    /\ UNCHANGED <<hits, max_tokens, hidx, context, current_tokens,
                   remaining_tokens, partial_text, bresult>>
    /\ UNCHANGED <<chunkVars, upsVars, fmtVars, uplVars>>

CtxNext == BcNoHits \/ BcEnter \/ BcAdd \/ BcOverflow \/ BcReturn \/ GaUseContext

-----------------------------------------------------------------------------
(* upsert_data *)

MaxRecords == 2

\* field values of a record: absent key, a non-string value, or a string
Missing == [t |-> "missing"]
IntVal(n) == [t |-> "int", v |-> n]
StrVal(v) == [t |-> "str", v |-> v]

TextValues == {Missing, IntVal(7), StrVal(<<>>), StrVal(<<" ", " ">>),
               StrVal(<<" ", "a", "b", " ">>), StrVal(<<" ", "a", "b", "c", " ">>)}
IdValues == {Missing, StrVal(<<>>), StrVal(<<"r", "1">>), StrVal(<<"r", "2">>)}
OwnerValues == {Missing, StrVal(<<"b">>)}

Records == [id : IdValues, text : TextValues, assistant : OwnerValues]
RecordLists == SeqsUpTo(Records, MaxRecords)

NoError == [kind |-> "none", msg |-> "", count |-> 0]

\* Python truth value of a field value (an absent key reads as '' or None)
Falsy(x) ==
    \/ x.t = "missing"
    \/ (x.t = "str" /\ x.v = <<>>)
    \/ (x.t = "int" /\ x.v = 0)

\* line 45: if not text or not isinstance(text, str)
TextInvalid(x) == Falsy(x) \/ x.t # "str"

\* variant of TextTooShort with a minimum of 2 characters
TextTooShort_Two(x) == Len(Strip(x.v)) < 2

\* line 52: if not text_stripped or len(text_stripped) < 3
TextTooShort(x) == Len(Strip(x.v)) = 0 \/ Len(Strip(x.v)) < 3

\* variant of NoValidRecords that never sees an empty list
NoValidRecords_Never(v) == Len(v) < 0

\* line 72: if not valid_records
NoValidRecords(v) == Len(v) = 0

UpsIdle ==
    /\ records0 = <<>> /\ records = <<>> /\ ridx = 0 /\ valid_records = <<>>
    /\ filtered_count = 0 /\ uerror = NoError
    /\ upsert_calls = <<>> /\ uresult = 0 /\ upc = "idle"

\* records0 keeps the caller's list as it was passed
UpsInit ==
    /\ records0 \in RecordLists
    /\ records = records0
    /\ ridx = 0 /\ valid_records = <<>> /\ filtered_count = 0
    /\ uerror = NoError /\ upsert_calls = <<>> /\ uresult = 0 /\ upc = "call"

\* lines 33-34: no record at all
UpNoRecords ==
    /\ upc = "call"
    /\ Len(records) = 0
    /\ uerror' = [kind |-> "ValueError", msg |-> "No records provided", count |-> 0]
    /\ upc' = "raised"
    /\ UNCHANGED <<records0, records, ridx, valid_records, filtered_count,
                   upsert_calls, uresult>>
    /\ UNCHANGED <<chunkVars, ctxVars, fmtVars, uplVars>>

\* lines 37-40: start the validation loop
UpEnter ==
    /\ upc = "call"
    /\ Len(records) # 0
    /\ valid_records' = <<>>
    /\ filtered_count' = 0
    /\ ridx' = 1
    /\ upc' = "loop"
    /\ UNCHANGED <<records0, records, uerror, upsert_calls, uresult>>
    /\ UNCHANGED <<chunkVars, ctxVars, fmtVars, uplVars>>

\* variant of Skip that does not count the rejected record
Skip_NoCount ==
    /\ ridx' = ridx + 1
    /\ UNCHANGED <<records0, records, valid_records, filtered_count, uerror,
                   upsert_calls, uresult, upc>>
    /\ UNCHANGED <<chunkVars, ctxVars, fmtVars, uplVars>>

\* a record is skipped: filtered_count += 1; continue
Skip ==
    /\ filtered_count' = filtered_count + 1
    /\ ridx' = ridx + 1
    /\ UNCHANGED <<records0, records, valid_records, uerror, upsert_calls,
                   uresult, upc>>
    /\ UNCHANGED <<chunkVars, ctxVars, fmtVars, uplVars>>

\* lines 42-48: text absent, empty or not a string
UpRejectText ==
    /\ upc = "loop" /\ ridx <= Len(records)
    /\ TextInvalid(records[ridx].text)
    /\ Skip

\* lines 51-55: text too short after stripping
UpRejectShort ==
    /\ upc = "loop" /\ ridx <= Len(records)
    /\ ~TextInvalid(records[ridx].text)
    /\ TextTooShort(records[ridx].text)
    /\ Skip

\* lines 58-61: no '_id'
UpRejectId ==
    /\ upc = "loop" /\ ridx <= Len(records)
    /\ ~TextInvalid(records[ridx].text)
    /\ ~TextTooShort(records[ridx].text)
    /\ Falsy(records[ridx].id)
    /\ Skip

\* lines 63-66: no 'assistant'
UpRejectOwner ==
    /\ upc = "loop" /\ ridx <= Len(records)
    /\ ~TextInvalid(records[ridx].text)
    /\ ~TextTooShort(records[ridx].text)
    /\ ~Falsy(records[ridx].id)
    /\ Falsy(records[ridx].assistant)
    /\ Skip

\* lines 68-70: the record is kept; its text is replaced in place by the
\* stripped text, and valid_records refers to that same record
UpKeep ==
    /\ upc = "loop" /\ ridx <= Len(records)
    /\ ~TextInvalid(records[ridx].text)
    /\ ~TextTooShort(records[ridx].text)
    /\ ~Falsy(records[ridx].id)
    /\ ~Falsy(records[ridx].assistant)
    /\ LET kept == [records[ridx] EXCEPT !.text = StrVal(Strip(records[ridx].text.v))]
       IN  /\ records' = [records EXCEPT ![ridx] = kept]
           /\ valid_records' = Append(valid_records, kept)
    /\ ridx' = ridx + 1
    /\ UNCHANGED <<records0, filtered_count, uerror, upsert_calls, uresult, upc>>
    /\ UNCHANGED <<chunkVars, ctxVars, fmtVars, uplVars>>

\* lines 72-75: every record was rejected
UpAllRejected ==
    /\ upc = "loop" /\ ridx > Len(records)
    /\ NoValidRecords(valid_records)
    /\ uerror' = [kind |-> "ValueError",
                  msg |-> "No valid records after filtering", count |-> filtered_count]
    /\ upc' = "raised"
    /\ UNCHANGED <<records0, records, ridx, valid_records, filtered_count,
                   upsert_calls, uresult>>
    /\ UNCHANGED <<chunkVars, ctxVars, fmtVars, uplVars>>

\* lines 81-87: the external upsert is called with valid_records and returns
UpUpsertOk ==
    /\ upc = "loop" /\ ridx > Len(records)
    /\ ~NoValidRecords(valid_records)
    /\ upsert_calls' = Append(upsert_calls, valid_records)
    /\ uresult' = Len(valid_records)
    /\ upc' = "returned"
    /\ UNCHANGED <<records0, records, ridx, valid_records, filtered_count, uerror>>
    /\ UNCHANGED <<chunkVars, ctxVars, fmtVars, uplVars>>

\* lines 85, 88-90: the external upsert is called and raises
UpUpsertFails ==
    /\ upc = "loop" /\ ridx > Len(records)
    /\ ~NoValidRecords(valid_records)
    /\ upsert_calls' = Append(upsert_calls, valid_records)
    /\ uerror' = [kind |-> "Exception", msg |-> "upsert_records failed", count |-> 0]
    /\ upc' = "raised"
    /\ UNCHANGED <<records0, records, ridx, valid_records, filtered_count, uresult>>
    /\ UNCHANGED <<chunkVars, ctxVars, fmtVars, uplVars>>

UpsNext ==
    \/ UpNoRecords \/ UpEnter
    \/ UpRejectText \/ UpRejectShort \/ UpRejectId \/ UpRejectOwner \/ UpKeep
    \/ UpAllRejected \/ UpUpsertOk \/ UpUpsertFails

-----------------------------------------------------------------------------
(* format_records_for_pinecone and the call of upsert_data on its result *)

MaxFmtChunks == 2

FmtChunkTexts == {<<>>, <<" ", " ", " ">>, <<"a", "b">>, <<" ", "a", "b", " ">>,
                  <<"a", "b", "c">>, <<" ", "a", "b", "c">>}
FmtChunkLists == SeqsUpTo(FmtChunkTexts, MaxFmtChunks)
FmtOwners == {<<>>, <<"b">>}
FmtBaseIds == {Missing, StrVal(<<"d">>)}

DecimalDigits == <<"0", "1", "2", "3", "4", "5", "6", "7", "8", "9">>

\* str(n) for n >= 0
RECURSIVE IntStr(_)
IntStr(n) ==
    IF n < 10 THEN <<DecimalDigits[n + 1]>>
    ELSE IntStr(n \div 10) \o <<DecimalDigits[(n % 10) + 1]>>

\* lines 218-219: base_id defaults to the assistant name
BaseId(base_id, assistant) == IF base_id = Missing THEN assistant ELSE base_id.v

\* variant of FormatRecord that numbers the records from 0
FormatRecord_FromZero(chunk, i, assistant, base) ==
    [id |-> StrVal(base \o <<"_">> \o IntStr(i - 1)),
     text |-> StrVal(chunk),
     assistant |-> StrVal(assistant)]

\* lines 223-227: the record of the i-th chunk
FormatRecord(chunk, i, assistant, base) ==
    [id |-> StrVal(base \o <<"_">> \o IntStr(i)),
     text |-> StrVal(chunk),
     assistant |-> StrVal(assistant)]

\* variant of FormatRecords that leaves out the last chunk
FormatRecords_DropLast(cs, assistant, base_id) ==
    [i \in 1..(Len(cs) - 1) |-> FormatRecord(cs[i], i, assistant, BaseId(base_id, assistant))]

\* lines 221-230: for i, chunk in enumerate(chunks, start=1)
FormatRecords(cs, assistant, base_id) ==
    [i \in 1..Len(cs) |-> FormatRecord(cs[i], i, assistant, BaseId(base_id, assistant))]

FmtIdle ==
    /\ f_chunks = <<>> /\ f_assistant = <<>> /\ f_base_id = Missing
    /\ f_records = <<>> /\ fpc = "idle"

FmtInit ==
    /\ f_chunks \in FmtChunkLists
    /\ f_assistant \in FmtOwners
    /\ f_base_id \in FmtBaseIds
    /\ f_records = <<>> /\ fpc = "call"

\* lines 206-230: format_records_for_pinecone returns the records
FmtFormat ==
    /\ fpc = "call"
    /\ f_records' = FormatRecords(f_chunks, f_assistant, f_base_id)
    /\ fpc' = "formatted"
    /\ UNCHANGED <<f_chunks, f_assistant, f_base_id>>
    /\ UNCHANGED <<chunkVars, ctxVars, upsVars, uplVars>>

\* app.py line 248: upsert_data(records); f_records keeps the list as it
\* was formatted, records is the list upsert_data works on
FmtUpsert ==
    /\ fpc = "formatted" /\ upc = "idle"
    /\ records0' = f_records
    /\ records' = f_records
    /\ upc' = "call"
    /\ fpc' = "passed"
    /\ UNCHANGED <<ridx, valid_records, filtered_count, uerror, upsert_calls,
                   uresult>>
    /\ UNCHANGED <<f_chunks, f_assistant, f_base_id, f_records>>
    /\ UNCHANGED <<chunkVars, ctxVars, uplVars>>

FmtNext == FmtFormat \/ FmtUpsert

-----------------------------------------------------------------------------
(* upload_file *)

MaxFileSize == 1048576
UploadChunkSize == 2000
UploadOverlap == 100

UploadOwners == {<<>>, <<" ">>, <<" ", "b", " ">>}
UploadFilenames == {<<"f">>, <<"f", ".", "e", "x", "e">>, <<"f", ".", "t", "x", "t">>,
                    <<"f", ".", "T", "X", "T">>, <<"a", " ", "b", ".", "p", "d", "f">>}
UploadSizes == {0, 1, MaxFileSize, MaxFileSize + 1}
UploadTexts == {<<>>, <<" ", "\n">>, <<"a", "b">>, <<" ", "a", "b", "c", " ">>,
                Rep("a", UploadChunkSize + 1)}

\* what extract_text does on the file: it raises, or returns a text
ExtractFails == [t |-> "raise"]
UploadExtractions == {ExtractFails} \cup {StrVal(t) : t \in UploadTexts}

NoResponse == [status |-> "none"]
HttpError(code, detail) == [status |-> "error", code |-> code, detail |-> detail]
Success(n) == [status |-> "success", chunks_created |-> n]

\* str.lower() on the characters of the file names
LowerChar(c) == IF c = "T" THEN "t" ELSE IF c = "X" THEN "x" ELSE c
Lower(s) == [i \in 1..Len(s) |-> LowerChar(s[i])]

\* str.replace(a, b) for single characters
ReplaceChar(s, a, b) == [i \in 1..Len(s) |-> IF s[i] = a THEN b ELSE s[i]]

\* line 178: not assistant or not assistant.strip()
BlankAssistant(a) == a = <<>> \/ Strip(a) = <<>>

\* line 184: filename.split('.')[-1] if '.' in filename else ''
FileExtension(fn) ==
    IF RFind(fn, ".") = -1 THEN <<>> ELSE PySlice(fn, RFind(fn, ".") + 1, Len(fn))

\* line 185
AllowedExtensions == {<<"p", "d", "f">>, <<"t", "x", "t">>, <<"d", "o", "c", "x">>,
                      <<"d", "o", "c", "s">>, <<"p", "p", "t">>, <<"p", "p", "t", "x">>}

\* line 187: file_extension.lower() not in allowed_extensions
BadExtension(fn) == Lower(FileExtension(fn)) \notin AllowedExtensions

\* variant of TooLarge without a limit
TooLarge_Never(n) == FALSE

\* line 206: len(file_content) > max_size
TooLarge(n) == n > MaxFileSize

\* line 227: not extracted_text or not extracted_text.strip()
NoTextExtracted(t) == t = <<>> \/ Strip(t) = <<>>

\* line 243: f"{assistant}_file_{filename.replace('.', '_').replace(' ', '_')}"
UploadBaseId(a, fn) ==
    a \o <<"_", "f", "i", "l", "e", "_">> \o ReplaceChar(ReplaceChar(fn, ".", "_"), " ", "_")

UplIdle ==
    /\ u_assistant = <<>> /\ u_filename = <<>> /\ u_size = 0
    /\ u_read_ok = TRUE /\ u_extracted = ExtractFails
    /\ u_response = NoResponse /\ ufpc = "idle"

UplInit ==
    /\ u_assistant \in UploadOwners
    /\ u_filename \in UploadFilenames
    /\ u_size \in UploadSizes
    /\ u_read_ok \in BOOLEAN
    /\ u_extracted \in UploadExtractions
    /\ u_response = NoResponse /\ ufpc = "call"

\* the request ends with an HTTP error before anything was chunked
UfReject(code, detail) ==
    /\ u_response' = HttpError(code, detail)
    /\ ufpc' = "done"
    /\ UNCHANGED <<u_assistant, u_filename, u_size, u_read_ok, u_extracted>>
    /\ UNCHANGED <<chunkVars, ctxVars, upsVars, fmtVars>>

\* lines 178-179
UfRejectAssistant ==
    /\ ufpc = "call"
    /\ BlankAssistant(u_assistant)
    /\ UfReject(400, "Assistant name cannot be empty")

\* lines 184-191
UfRejectExtension ==
    /\ ufpc = "call"
    /\ ~BlankAssistant(u_assistant)
    /\ BadExtension(u_filename)
    /\ UfReject(400, "Invalid file type")

\* lines 194-198: file.read() raises
UfReadFails ==
    /\ ufpc = "call"
    /\ ~BlankAssistant(u_assistant)
    /\ ~BadExtension(u_filename)
    /\ ~u_read_ok
    /\ UfReject(400, "Failed to read file")

\* lines 201-202
UfRejectEmptyFile ==
    /\ ufpc = "call"
    /\ ~BlankAssistant(u_assistant)
    /\ ~BadExtension(u_filename)
    /\ u_read_ok
    /\ u_size = 0
    /\ UfReject(400, "File is empty")

\* lines 205-210
UfRejectTooLarge ==
    /\ ufpc = "call"
    /\ ~BlankAssistant(u_assistant)
    /\ ~BadExtension(u_filename)
    /\ u_read_ok
    /\ u_size # 0
    /\ TooLarge(u_size)
    /\ UfReject(400, "File size exceeds maximum allowed size of 1MB")

\* the checks of lines 178-210 let the request through
UfFileAccepted ==
    /\ ~BlankAssistant(u_assistant)
    /\ ~BadExtension(u_filename)
    /\ u_read_ok
    /\ u_size # 0
    /\ ~TooLarge(u_size)

\* lines 215-224: extract_text raises; the extractors raise Exception, and
\* the ValueError of an unsupported extension cannot follow line 187
UfExtractFails ==
    /\ ufpc = "call"
    /\ UfFileAccepted
    /\ u_extracted = ExtractFails
    /\ UfReject(500, "Failed to extract text from file")

\* lines 227-231
UfRejectNoText ==
    /\ ufpc = "call"
    /\ UfFileAccepted
    /\ u_extracted # ExtractFails
    /\ NoTextExtracted(u_extracted.v)
    /\ UfReject(400, "No text content could be extracted from the file")

\* line 234: chunk_text(extracted_text, chunk_size=2000, overlap=100) is called
UfChunk ==
    /\ ufpc = "call"
    /\ UfFileAccepted
    /\ u_extracted # ExtractFails
    /\ ~NoTextExtracted(u_extracted.v)
    /\ cpc = "idle"
    /\ text' = u_extracted.v
    /\ chunk_size' = UploadChunkSize
    /\ overlap' = UploadOverlap
    /\ cpc' = "call"
    /\ ufpc' = "chunking"
    /\ UNCHANGED <<stext, start, wend, chunks, nchunks, covered>>
    /\ UNCHANGED <<u_assistant, u_filename, u_size, u_read_ok, u_extracted,
                   u_response>>
    /\ UNCHANGED <<ctxVars, upsVars, fmtVars>>

\* lines 236-244: chunk_text has returned; without chunks the request is
\* rejected, otherwise format_records_for_pinecone is called with the
\* stripped assistant (line 181) and the base_id of line 243
UfFormat ==
    /\ ufpc = "chunking"
    /\ cpc = "returned"
    /\ IF chunks = <<>>
       THEN /\ u_response' = HttpError(400, "No valid chunks could be created from the extracted text")
            /\ ufpc' = "done"
            /\ UNCHANGED fmtVars
       ELSE /\ f_chunks' = chunks
            /\ f_assistant' = Strip(u_assistant)
            /\ f_base_id' = StrVal(UploadBaseId(Strip(u_assistant), u_filename))
            /\ fpc' = "call"
            /\ ufpc' = "upserting"
            /\ UNCHANGED <<f_records, u_response>>
    /\ UNCHANGED <<u_assistant, u_filename, u_size, u_read_ok, u_extracted>>
    /\ UNCHANGED <<chunkVars, ctxVars, upsVars>>

\* the request ends after the call of upsert_data
UfRespond(r) ==
    /\ u_response' = r
    /\ ufpc' = "done"
    /\ UNCHANGED <<u_assistant, u_filename, u_size, u_read_ok, u_extracted>>
    /\ UNCHANGED <<chunkVars, ctxVars, upsVars, fmtVars>>

\* lines 248-257: upsert_data returned
UfSuccess ==
    /\ ufpc = "upserting"
    /\ upc = "returned"
    /\ UfRespond(Success(Len(chunks)))

\* lines 258-263: upsert_data raised ValueError
UfUpsertInvalid ==
    /\ ufpc = "upserting"
    /\ upc = "raised"
    /\ uerror.kind = "ValueError"
    /\ UfRespond(HttpError(400, "Data validation failed"))

\* lines 264-269: upsert_data raised another exception
UfUpsertError ==
    /\ ufpc = "upserting"
    /\ upc = "raised"
    /\ uerror.kind # "ValueError"
    /\ UfRespond(HttpError(500, "Failed to store data in Pinecone"))

UplNext ==
    \/ UfRejectAssistant \/ UfRejectExtension \/ UfReadFails
    \/ UfRejectEmptyFile \/ UfRejectTooLarge \/ UfExtractFails
    \/ UfRejectNoText \/ UfChunk \/ UfFormat
    \/ UfSuccess \/ UfUpsertInvalid \/ UfUpsertError

-----------------------------------------------------------------------------
(* Specifications *)

\* one call of chunk_text
InitChunk == ChunkInit /\ CtxIdle /\ UpsIdle /\ FmtIdle /\ UplIdle
SpecChunk == InitChunk /\ [][ChunkNext]_vars

\* one call of get_answer, which calls build_context
InitContext == ChunkIdle /\ CtxInit /\ UpsIdle /\ FmtIdle /\ UplIdle
SpecContext == InitContext /\ [][CtxNext]_vars

\* one call of upsert_data
InitUpsert == ChunkIdle /\ CtxIdle /\ UpsInit /\ FmtIdle /\ UplIdle
SpecUpsert == InitUpsert /\ [][UpsNext]_vars

\* one call of upsert_data, on records of any origin or on the records that
\* format_records_for_pinecone has made of a chunk list
InitFormat == ChunkIdle /\ CtxIdle /\ UpsIdle /\ FmtInit /\ UplIdle
InitRecords == InitFormat \/ InitUpsert
RecordsNext == FmtNext \/ UpsNext
SpecRecords == InitRecords /\ [][RecordsNext]_vars

\* one upload request, which calls chunk_text, format_records_for_pinecone
\* and upsert_data in turn, or one direct call of any of these
InitUpload == ChunkIdle /\ CtxIdle /\ UpsIdle /\ FmtIdle /\ UplInit
InitPipeline == InitUpload \/ InitChunk \/ InitRecords
PipelineNext == UplNext \/ ChunkNext \/ RecordsNext
SpecUpload == InitPipeline /\ [][PipelineNext]_vars

\* one call of any of them
Init == InitContext \/ InitPipeline

Next == CtxNext \/ PipelineNext

Spec == Init /\ [][Next]_vars

\* the contract of chunk: chunk_size > 0 and 0 <= overlap < chunk_size
ValidConfig == chunk_size > 0 /\ overlap >= 0 /\ overlap < chunk_size

\* calls within the contract on texts of words and spaces
WordTexts == SeqsUpTo({"a", " "}, MaxLen)

InitValidChunk ==
    /\ text \in WordTexts
    /\ chunk_size \in 1..MaxChunkSize
    /\ overlap \in 0..(chunk_size - 1)
    /\ stext = <<>> /\ start = 0 /\ wend = 0 /\ chunks = <<>> /\ nchunks = 0
    /\ covered = {} /\ cpc = "call"
    /\ CtxIdle /\ UpsIdle /\ FmtIdle /\ UplIdle

\* the interpreter keeps running a call that has not returned
FairSpecChunk == InitValidChunk /\ [][ChunkNext]_vars /\ WF_vars(ChunkNext)

\* calls with an overlap of at most half the chunk size, on texts of words,
\* spaces and newlines
LineTexts == SeqsUpTo({"a", " ", "\n"}, MaxLen)

InitHalfOverlap ==
    /\ text \in LineTexts
    /\ chunk_size \in 1..MaxChunkSize
    /\ overlap \in 0..(chunk_size \div 2)
    /\ stext = <<>> /\ start = 0 /\ wend = 0 /\ chunks = <<>> /\ nchunks = 0
    /\ covered = {} /\ cpc = "call"
    /\ CtxIdle /\ UpsIdle /\ FmtIdle /\ UplIdle

FairSpecHalfOverlap ==
    InitHalfOverlap /\ [][ChunkNext]_vars /\ WF_vars(ChunkNext)

-----------------------------------------------------------------------------
(* Properties of chunk_text *)

\* C1: with a valid configuration every chunk produced by chunk_text has at
\* most chunk_size characters.
C1_ChunkWithinSize ==
    ValidConfig => \A i \in 1..Len(chunks) : Len(chunks[i]) <= chunk_size

C1_Witness ==
    /\ cpc = "returned" /\ ValidConfig /\ Len(chunks) >= 2
    /\ \E i \in 1..Len(chunks) : Len(chunks[i]) = chunk_size

\* C2: with a valid configuration the loop of chunk_text terminates: the
\* call eventually returns.
C2_Terminates == <>(cpc = "returned")

\* C4: with a valid configuration no chunk produced by chunk_text is empty.
C4_NoEmptyChunk ==
    ValidConfig => \A i \in 1..Len(chunks) : chunks[i] # <<>>

\* C5: a call with an invalid configuration on a text that has content
\* fails fast: it never enters the loop, produces no chunk and does not
\* return normally.
C5_InvalidConfigFailsFast ==
    (~ValidConfig /\ ~IsBlank(text)) => (cpc \in {"call", "raised"} /\ chunks = <<>>)

\* C6 as stated: every text of length <= chunk_size gives exactly one chunk,
\* the trimmed text.
C6_ShortTextOneChunk ==
    (cpc = "returned" /\ ValidConfig /\ Len(text) <= chunk_size)
        => chunks = <<Strip(text)>>

\* C6 as amended: every text of length <= chunk_size whose trimmed form is
\* not empty gives exactly one chunk, the trimmed text.
C6_ShortNonBlankTextOneChunk ==
    (cpc = "returned" /\ Len(text) <= chunk_size /\ Strip(text) # <<>>)
        => chunks = <<Strip(text)>>

C6_Witness ==
    /\ cpc = "returned" /\ Len(text) = chunk_size /\ overlap > 0
    /\ Strip(text) # <<>> /\ Strip(text) # text
    /\ chunks = <<Strip(text)>>

\* C7: on an empty or whitespace-only text chunk_text returns the empty
\* sequence, whatever chunk_size and overlap are, and raises nothing.
C7_BlankTextNoChunks ==
    (cpc # "call" /\ Strip(text) = <<>>) => (cpc = "returned" /\ chunks = <<>>)

C7_Witness ==
    /\ cpc = "returned" /\ Len(text) >= 2 /\ Strip(text) = <<>>
    /\ ~ValidConfig /\ chunks = <<>>

\* the text holds no newline, no ". " and no space
NoBreakChars(t) == \A i \in 1..Len(t) : t[i] \notin {" ", "\n"}

\* a call within the contract on a text without break characters that does
\* not fit one chunk
PlainLongText == ValidConfig /\ NoBreakChars(text) /\ Len(text) > chunk_size

\* C14 as stated: on such a text the k-th chunk starts at offset
\* k * (chunk_size - overlap), every chunk but the last has exactly
\* chunk_size characters and the last is the remainder.
C14_FullWindowsButLast ==
    (cpc = "returned" /\ PlainLongText) =>
        /\ \A k \in 1..Len(chunks) :
              chunks[k] = PySlice(text, (k - 1) * (chunk_size - overlap),
                                  (k - 1) * (chunk_size - overlap) + chunk_size)
        /\ \A k \in 1..(Len(chunks) - 1) : Len(chunks[k]) = chunk_size

\* C14 as amended: on such a text the k-th chunk starts at offset
\* k * (chunk_size - overlap) and holds the chunk_size characters from there,
\* or what is left of the text when fewer are left; there is one chunk for
\* every such offset below the text length.
C14_FullWindows ==
    PlainLongText =>
        /\ cpc = "loop" => start = Len(chunks) * (chunk_size - overlap)
        /\ \A k \in 1..Len(chunks) :
              chunks[k] = PySlice(text, (k - 1) * (chunk_size - overlap),
                                  (k - 1) * (chunk_size - overlap) + chunk_size)
        /\ cpc = "returned" =>
              /\ (Len(chunks) - 1) * (chunk_size - overlap) < Len(text)
              /\ Len(chunks) * (chunk_size - overlap) >= Len(text)

C14_Witness ==
    /\ cpc = "returned" /\ PlainLongText /\ overlap > 0 /\ Len(chunks) = 3
    /\ Len(chunks[1]) = chunk_size /\ Len(chunks[2]) = chunk_size
    /\ Len(chunks[3]) < chunk_size

\* the highest element of a set of indices, -1 for none
Rightmost(S) == IF S = {} THEN -1 ELSE CHOOSE i \in S : \A j \in S : j <= i

\* the break point of a window w by the three rules of the claim
RuleBreak(w, cs) ==
    LET nl == Rightmost({i \in 0..(Len(w) - 1) : w[i + 1] = "\n"})
        ds == Rightmost({i \in 0..(Len(w) - 2) : w[i + 1] = "." /\ w[i + 2] = " "})
        sp == Rightmost({i \in 0..(Len(w) - 1) : w[i + 1] = " "})
    IN  IF nl # -1 /\ nl >= cs - 200 THEN nl
        ELSE IF ds # -1 /\ ds >= cs - 200 THEN ds
        ELSE sp

\* the window emitted at the current start by the rules of the claim
RuleWindow ==
    LET w == PySlice(stext, start, start + chunk_size)
        b == RuleBreak(w, chunk_size)
    IN  IF start + chunk_size < Len(stext) /\ overlap > 0 /\ 2 * b > chunk_size
        THEN [chunk |-> SubSeq(w, 1, b), end |-> start + b]
        ELSE [chunk |-> w, end |-> start + chunk_size]

\* C17: within the contract every iteration emits the window cut at the
\* break point the rules give (rightmost newline within the last 200
\* characters, else rightmost ". " within them, else rightmost space; used
\* only beyond chunk_size / 2), and the full window when overlap = 0 or the
\* window reaches the end of the text.
C17_BreakPointRules ==
    [][(cpc = "loop" /\ ValidConfig) =>
          /\ wend' = RuleWindow.end
          /\ Len(chunks) < MaxChunks =>
                chunks' = Append(chunks, Strip(RuleWindow.chunk))]_vars

\* a newline at the head of the window, outside the look-back, was passed
\* over for a space beyond the middle
C17_Witness ==
    /\ cpc = "loop" /\ Len(chunks) = 1 /\ overlap > 0
    /\ chunk_size = BreakLookback + 3
    /\ LET w == SubSeq(stext, 1, chunk_size)
       IN  /\ RFind(w, "\n") \in 0..2
           /\ RFindDotSpace(w) = -1
           /\ wend = RFind(w, " ")
           /\ wend > chunk_size \div 2
           /\ chunks[1] = SubSeq(stext, 1, wend)

\* the call went through the loop
Looped == cpc \in {"loop", "returned"} /\ Len(stext) > chunk_size

C20_HalfOverlapTerminates ==
    /\ [][cpc = "loop" =>
            start' >= start + (chunk_size \div 2) + 1 - overlap]_vars
    /\ [](start >= 0)
    /\ <>(cpc = "returned")

C20_Witness ==
    /\ cpc = "returned" /\ overlap > 0 /\ overlap = chunk_size \div 2
    /\ Len(chunks) >= 3 /\ Len(chunks[1]) < chunk_size

-----------------------------------------------------------------------------
(* Properties of build_context *)

\* " " + text of the first n hits, concatenated in rank order
RECURSIVE Joined(_, _)
Joined(hs, n) == IF n = 0 THEN <<>> ELSE Joined(hs, n - 1) \o <<" ">> \o hs[n]

\* C3: with a positive budget the string build_context returns never counts
\* more than max_tokens tokens under the tokenizer used for the counting.
C3_ContextWithinBudget ==
    (bpc = "returned" /\ max_tokens > 0 /\ bresult.kind = "str")
        => Len(Encode(bresult.val)) <= max_tokens

\* C8: build_context returns None exactly when there is no hit, and
\* get_answer then carries on with the empty string as context.
C8_NoneIffNoHits ==
    /\ bpc \in {"returned", "prompted"} => ((bresult = None) <=> (hits = <<>>))
    /\ (bpc = "prompted" /\ hits = <<>>) => ga_context = <<>>
    /\ (bpc = "prompted" /\ hits # <<>>) => ga_context = context

C8_Witness ==
    bpc = "prompted" /\ hits = <<>> /\ bresult = None /\ ga_context = <<>>

\* the loop was left at hit hidx with budget remaining
OverflowedWithRoom ==
    /\ bpc \in {"returned", "prompted"} /\ bresult # None
    /\ hidx <= Len(hits) /\ max_tokens - current_tokens > 0

\* C9: when the first overflowing hit is met with remaining > 0, what is
\* appended for it is a space and the decoding of exactly the first
\* `remaining` tokens of encode(hit.text); a single hit longer than the
\* budget gives the first max_tokens tokens of that hit.
C9_PartialIsTokenPrefix ==
    OverflowedWithRoom =>
        LET toks == Encode(hits[hidx])
            remaining == max_tokens - current_tokens
        IN  /\ Len(toks) >= remaining
            /\ remaining_tokens = remaining
            /\ partial_text = Decode(SubSeq(toks, 1, remaining))
            /\ bresult.val = Joined(hits, hidx - 1) \o <<" ">> \o partial_text
            /\ (hidx = 1 =>
                  Tail(bresult.val) = Decode(SubSeq(toks, 1, max_tokens)))

C9_Witness ==
    /\ OverflowedWithRoom /\ Len(hits) = 1 /\ max_tokens = 2
    /\ Len(Encode(hits[1])) = 3
    /\ Len(Encode(partial_text)) = 2

\* C13: a call of build_context with max_tokens <= 0 on a search that gave
\* hits fails fast: it processes no hit and returns no context.
C13_BadBudgetFailsFast ==
    (max_tokens <= 0 /\ hits # <<>>) => bpc \in {"call", "raised"}

\* tokens counted for the first n hits, each with its separator
RECURSIVE CountedTokens(_, _)
CountedTokens(hs, n) ==
    IF n = 0 THEN 0 ELSE CountedTokens(hs, n - 1) + Len(Encode(<<" ">> \o hs[n]))

\* the hits in rank order that fit the budget mx one after the other
FittingPrefix(hs, mx) ==
    CHOOSE n \in 0..Len(hs) :
        /\ CountedTokens(hs, n) <= mx
        /\ n < Len(hs) => CountedTokens(hs, n + 1) > mx

\* C16: with a budget that is not negative, build_context takes the hits
\* in rank order and stops at the first that overflows: the result is
\* " " + text of the hits before it, followed by at most one fragment of
\* that hit; no later hit adds text, even one that would fit, and the
\* tokens counted never exceed max_tokens.
C16_StopsAtFirstOverflow ==
    max_tokens >= 0 =>
        /\ current_tokens <= max_tokens
        /\ bpc = "loop" =>
              /\ hidx - 1 <= FittingPrefix(hits, max_tokens)
              /\ context = Joined(hits, hidx - 1)
              /\ current_tokens = CountedTokens(hits, hidx - 1)
        /\ (bpc = "returned" /\ hits # <<>>) =>
              LET n == FittingPrefix(hits, max_tokens)
              IN  /\ current_tokens = CountedTokens(hits, n)
                  /\ n = Len(hits) => bresult = Str(Joined(hits, n))
                  /\ n < Len(hits) =>
                        \E frag \in {SubSeq(hits[n + 1], 1, k) : k \in 0..Len(hits[n + 1])} :
                            bresult.val \in {Joined(hits, n),
                                             Joined(hits, n) \o <<" ">> \o frag}

\* the loop stopped at the first hit although the second would have fitted
C16_Witness ==
    /\ bpc = "returned" /\ max_tokens > 0 /\ Len(hits) = 2
    /\ FittingPrefix(hits, max_tokens) = 0
    /\ hits[2] # <<>>
    /\ Len(Encode(<<" ">> \o hits[2])) <= max_tokens
    /\ bresult = Str(<<" ">> \o partial_text)
    /\ partial_text # <<>>

-----------------------------------------------------------------------------
(* Properties of upsert_data *)

UpsDone == upc \in {"returned", "raised"}

\* the text of a record is absent or the empty string
EmptyText(r) == r.text = Missing \/ r.text = StrVal(<<>>)

\* C10: when every input record is rejected, for instance when every record
\* has empty text, upsert_data keeps no record, raises the all-rejected
\* error with the number of rejected records, and never calls the external
\* upsert.
C10_AllRejectedRaises ==
    /\ (UpsDone /\ Len(records0) > 0 /\ \A i \in 1..Len(records0) : EmptyText(records0[i]))
          => valid_records = <<>>
    /\ (UpsDone /\ Len(records0) > 0 /\ valid_records = <<>>)
          => /\ upc = "raised"
             /\ uerror = [kind |-> "ValueError",
                          msg |-> "No valid records after filtering",
                          count |-> Len(records0)]
             /\ upsert_calls = <<>>

C10_Witness ==
    /\ upc = "raised" /\ Len(records0) = 2
    /\ \A i \in 1..2 : EmptyText(records0[i])
    /\ uerror.count = 2 /\ upsert_calls = <<>>

\* the validation loop of the records made from f_chunks has ended
RoundTripDone ==
    /\ fpc = "passed"
    /\ \/ upc = "loop" /\ ridx > Len(records)
       \/ UpsDone

\* every record is kept, in order, with its id and owner and the trimmed chunk
AllKeptTrimmed ==
    /\ filtered_count = 0
    /\ Len(valid_records) = Len(f_chunks)
    /\ \A i \in 1..Len(f_chunks) :
          /\ valid_records[i].id = f_records[i].id
          /\ valid_records[i].assistant = f_records[i].assistant
          /\ valid_records[i].text = StrVal(Strip(f_chunks[i]))

\* C11 as stated: formatting a chunk sequence whose chunks all have at least
\* 3 characters and validating the result keeps every record (rejected
\* count 0), in order, with the same id and owner and the trimmed chunk as
\* text.
C11_RoundTripKeepsAll ==
    (RoundTripDone /\ \A i \in 1..Len(f_chunks) : Len(f_chunks[i]) >= 3)
        => AllKeptTrimmed

\* C11, amended: formatting a chunk sequence whose chunks all have at least
\* 3 characters after trimming, for a non-empty owner, and validating the
\* result keeps every record (rejected count 0), in order, with the same id
\* and owner and the trimmed chunk as text.
C11_RoundTripKeepsTrimmedLong ==
    (/\ RoundTripDone
     /\ f_assistant # <<>>
     /\ \A i \in 1..Len(f_chunks) : Len(Strip(f_chunks[i])) >= 3)
        => AllKeptTrimmed

C11_Witness ==
    /\ RoundTripDone /\ upc = "returned"
    /\ f_assistant # <<>>
    /\ Len(f_chunks) = 2
    /\ \A i \in 1..2 : Len(Strip(f_chunks[i])) >= 3
    /\ f_chunks[2] # Strip(f_chunks[2])
    /\ valid_records[2].text = StrVal(Strip(f_chunks[2]))
    /\ filtered_count = 0

\* the id that the i-th record of a formatting call must have, i in 1..9
ExpectedId(i) ==
    (IF f_base_id = Missing THEN f_assistant ELSE f_base_id.v)
        \o <<"_">> \o <<SubSeq(<<"1", "2", "3", "4", "5", "6", "7", "8", "9">>, i, i)[1]>>

\* C12: format_records_for_pinecone returns one record per chunk, in chunk
\* order; the i-th record, i from 1, has id base_id + "_" + i (base_id being
\* the owner when none is given), the i-th chunk as text and the given
\* owner; the ids of one call are pairwise distinct.
C12_OneRecordPerChunk ==
    fpc \in {"formatted", "passed"} =>
        /\ Len(f_records) = Len(f_chunks)
        /\ \A i \in 1..Len(f_chunks) :
              /\ f_records[i].id = StrVal(ExpectedId(i))
              /\ f_records[i].text = StrVal(f_chunks[i])
              /\ f_records[i].assistant = StrVal(f_assistant)
        /\ \A i, j \in 1..Len(f_records) :
              i # j => f_records[i].id # f_records[j].id

C12_Witness ==
    /\ fpc = "formatted"
    /\ Len(f_chunks) = 2 /\ f_chunks[1] = f_chunks[2]
    /\ f_base_id = Missing /\ f_assistant = <<"b">>
    /\ f_records[1].id = StrVal(<<"b", "_", "1">>)
    /\ f_records[2].id = StrVal(<<"b", "_", "2">>)

\* a field value that is present and neither '' nor 0
NonEmpty(x) == x # Missing /\ x # StrVal(<<>>) /\ x # IntVal(0)

\* the rule of the validation: a non-empty string text of at least 3
\* characters after trimming, a non-empty id, a non-empty owner
Keeps(r) ==
    /\ r.text.t = "str"
    /\ r.text.v # <<>>
    /\ Len(Strip(r.text.v)) >= 3
    /\ NonEmpty(r.id)
    /\ NonEmpty(r.assistant)

\* the records among the first n of rs that the rule keeps, trimmed
RECURSIVE KeptOf(_, _)
KeptOf(rs, n) ==
    IF n = 0 THEN <<>>
    ELSE IF Keeps(rs[n])
         THEN Append(KeptOf(rs, n - 1),
                     [rs[n] EXCEPT !.text = StrVal(Strip(rs[n].text.v))])
         ELSE KeptOf(rs, n - 1)

\* C15: the validation keeps a record if and only if its text is a
\* non-empty string with at least 3 characters after trimming and its id
\* and owner are non-empty; every other record is counted exactly once as
\* rejected; the kept records are in input order with trimmed text.
C15_KeepsExactlyValid ==
    (upc = "loop" \/ (UpsDone /\ Len(records0) > 0)) =>
        /\ valid_records = KeptOf(records0, ridx - 1)
        /\ filtered_count = (ridx - 1) - Len(valid_records)

C15_Witness ==
    /\ UpsDone /\ Len(records0) = 2 /\ ridx = 3
    /\ records0[1].text = StrVal(<<" ", "a", "b", " ">>)
    /\ records0[1].id = Missing /\ records0[1].assistant = Missing
    /\ Keeps(records0[2])
    /\ filtered_count = 1
    /\ valid_records = <<[records0[2] EXCEPT !.text = StrVal(<<"a", "b", "c">>)]>>

\* C18: the validation leaves the caller's records as they were passed;
\* in particular no text field of them is replaced by its trimmed form.
C18_InputUnchanged ==
    records = records0

\* the validation loop of upsert_data has run over every input record
LoopEnded ==
    \/ upc = "loop" /\ ridx > Len(records)
    \/ UpsDone /\ Len(records0) > 0

\* C22: after the validation loop, kept records plus rejected count equals
\* the number of input records; the external upsert is called at most
\* once, only after the loop, with exactly the kept records, none of which
\* is a rejected record.
C22_CountsAddUp ==
    /\ LoopEnded => Len(valid_records) + filtered_count = Len(records0)
    /\ ~LoopEnded => upsert_calls = <<>>
    /\ Len(upsert_calls) <= 1
    /\ \A k \in 1..Len(upsert_calls) :
          /\ upsert_calls[k] = valid_records
          /\ \A i \in 1..Len(upsert_calls[k]) : Keeps(upsert_calls[k][i])

C22_Witness ==
    /\ upc = "returned" /\ Len(records0) = 2
    /\ ~Keeps(records0[1]) /\ Keeps(records0[2])
    /\ filtered_count = 1 /\ Len(valid_records) = 1
    /\ upsert_calls = <<valid_records>>

\* the request is one that upload_file must refuse before it stores
\* anything: empty assistant, disallowed extension, unreadable, empty or
\* oversized file, failed extraction, or no text extracted
UploadRefused ==
    \/ Strip(u_assistant) = <<>>
    \/ Lower(FileExtension(u_filename)) \notin AllowedExtensions
    \/ ~u_read_ok
    \/ u_size = 0
    \/ u_size > MaxFileSize
    \/ u_extracted = ExtractFails
    \/ Strip(u_extracted.v) = <<>>

\* the request ended with an error and the external upsert was never called
ErrorWithoutUpsert ==
    /\ u_response.status = "error"
    /\ upsert_calls = <<>>

\* C21: upload_file answers "success" only after the external upsert was
\* called with at least one valid record and returned without raising;
\* every request refused before that (empty assistant, bad extension, empty
\* or oversized file, failed extraction, no text, no chunks) and every
\* request whose records are all rejected ends with an error and without
\* any call of the external upsert.
C21_SuccessOnlyAfterUpsert ==
    /\ u_response.status = "success" =>
          /\ upc = "returned"
          /\ Len(upsert_calls) = 1
          /\ Len(upsert_calls[1]) >= 1
          /\ \A i \in 1..Len(upsert_calls[1]) : Keeps(upsert_calls[1][i])
    /\ (ufpc = "done" /\ UploadRefused) => (ErrorWithoutUpsert /\ upc = "idle")
    /\ (ufpc = "done" /\ cpc = "returned" /\ chunks = <<>>) =>
          (ErrorWithoutUpsert /\ upc = "idle")
    /\ (ufpc = "done" /\ upc = "raised") => u_response.status = "error"
    /\ (ufpc = "done" /\ upc = "raised" /\ valid_records = <<>>) => ErrorWithoutUpsert

C21_Witness ==
    /\ ufpc = "done"
    /\ u_response = Success(2)
    /\ upc = "returned"
    /\ Len(upsert_calls) = 1 /\ Len(upsert_calls[1]) = 2
    /\ u_size = MaxFileSize

====
